---- MODULE Spec2Model ----
(***************************************************************************)
(* API-SUT (src/main.py): a FastAPI application that keeps items in the    *)
(* module-level dictionary data_store and numbers them with the            *)
(* module-level counter next_id.                                           *)
(*                                                                         *)
(* Two specifications are given.                                           *)
(*   Spec      every request is handled to completion before the next one  *)
(*             starts (a sequence of calls).                               *)
(*   ConcSpec  two worker threads each handle one request, interleaved     *)
(*             statement by statement (the handlers are plain "def"        *)
(*             functions, which FastAPI runs in a thread pool, and the     *)
(*             module takes no lock).                                      *)
(*                                                                         *)
(* Strings are TLA+ strings.  Optional[str] is <<>> for None and <<s>> for *)
(* the string s.  A price is a float in the code; here it is the number of *)
(* hundredths (29.99 is 2999), which keeps the order and the sign.         *)
(* datetime.now() is the naive local wall clock: the operating system may  *)
(* set it back between two reads (clock adjustment, end of daylight        *)
(* saving time), so a read yields any value of Times.                      *)
(***************************************************************************)
EXTENDS Integers, Sequences, FiniteSets, TLC

VARIABLES
    data_store,   \* main.py:90   dict[int, dict]
    next_id,      \* main.py:91   int
    response,     \* what the last handled request sent back (Spec)
    issued,       \* history: the ids handed out so far, in order
    deleted,      \* history: the ids a delete has removed
    pc,           \* ConcSpec: each worker thread's position in its handler
    frame,        \* ConcSpec: each worker thread's request and local variables
    result        \* ConcSpec: each worker thread's response

vars == <<data_store, next_id, response, issued, deleted, pc, frame, result>>

(***************************************************************************)
(* Bounds of the model.                                                    *)
(***************************************************************************)
MaxCreates == 2

\* The values a read of the clock yields: an earlier and a later instant.
Times == {0, 1}

(***************************************************************************)
(* Field constraints of ItemBase and the status codes the handlers use.    *)
(***************************************************************************)
MinNameLen == 1
MaxNameLen == 100
MaxDescriptionLen == 500

HTTP_200_OK == 200
HTTP_201_CREATED == 201
HTTP_204_NO_CONTENT == 204
HTTP_404_NOT_FOUND == 404
HTTP_422_UNPROCESSABLE_ENTITY == 422
HTTP_500_INTERNAL_SERVER_ERROR == 500

None == <<>>
Some(s) == <<s>>

RECURSIVE Rep(_, _)
Rep(s, n) ==
    IF n = 0 THEN ""
    ELSE LET half == Rep(s, n \div 2)
         IN  IF n % 2 = 0 THEN half \o half ELSE half \o half \o s

(***************************************************************************)
(* initialize_demo_data: the five preloaded items.                         *)
(***************************************************************************)
demo_items ==
    << [name |-> "Wireless Mouse",
        description |-> Some("Ergonomic wireless mouse with adjustable DPI"),
        price |-> 2999, quantity |-> 150],
       [name |-> "Mechanical Keyboard",
        description |-> Some("RGB mechanical keyboard with Cherry MX switches"),
        price |-> 14999, quantity |-> 75],
       [name |-> "USB-C Hub",
        description |-> Some("7-in-1 USB-C hub with HDMI, USB 3.0, and SD card reader"),
        price |-> 4999, quantity |-> 200],
       [name |-> "Monitor Stand",
        description |-> Some("Adjustable monitor stand with cable management"),
        price |-> 7999, quantity |-> 50],
       [name |-> "Webcam HD",
        description |-> Some("1080p HD webcam with built-in microphone"),
        price |-> 8999, quantity |-> 120] >>

NumDemo == Len(demo_items)

(***************************************************************************)
(* ItemBase: the pydantic validation of a request body.  FastAPI builds    *)
(* the ItemCreate / ItemUpdate argument before it calls the handler; a     *)
(* body that fails is answered 422 and the handler never runs.             *)
(***************************************************************************)
ValidName(name) == Len(name) >= MinNameLen /\ Len(name) <= MaxNameLen

ValidDescription(description) ==
    description = None \/ Len(description[1]) <= MaxDescriptionLen

\* ge=0 in place of gt=0.
ValidPrice_AllowsZero(price) == price >= 0

ValidPrice(price) == price > 0

ValidQuantity(quantity) == quantity >= 0

ValidationErrors(item) ==
    (IF ValidName(item.name) THEN {} ELSE {"name"})
    \cup (IF ValidDescription(item.description) THEN {} ELSE {"description"})
    \cup (IF ValidPrice(item.price) THEN {} ELSE {"price"})
    \cup (IF ValidQuantity(item.quantity) THEN {} ELSE {"quantity"})

ItemBase(item) == ValidationErrors(item) = {}

model_dump(item) ==
    [name |-> item.name, description |-> item.description,
     price |-> item.price, quantity |-> item.quantity]

(***************************************************************************)
(* Request bodies the model sends.                                         *)
(***************************************************************************)
Widget == [name |-> "Widget", description |-> None, price |-> 1000, quantity |-> 5]
Widget2 == [name |-> Rep("W", MaxNameLen),
            description |-> Some(Rep("d", MaxDescriptionLen)),
            price |-> 1, quantity |-> 0]

ValidBodies == {Widget, Widget2}

InvalidBodies ==
    { [Widget EXCEPT !.name = ""],
      [Widget EXCEPT !.name = Rep("W", MaxNameLen + 1)],
      [Widget EXCEPT !.description = Some(Rep("d", MaxDescriptionLen + 1))],
      [Widget EXCEPT !.price = 0],
      [Widget EXCEPT !.quantity = -1] }

Bodies == ValidBodies \cup InvalidBodies

\* The ids requests name: the last preloaded item and the ids of the first
\* two items a run creates (absent until created, and again once deleted).
ItemIds == {NumDemo, NumDemo + 1, NumDemo + 2}

(***************************************************************************)
(* Responses.                                                              *)
(***************************************************************************)
NotFound(item_id) ==
    [status |-> HTTP_404_NOT_FOUND,
     body |-> [detail |-> "Item with id " \o ToString(item_id) \o " not found"]]

RequestValidationError(item) ==
    [status |-> HTTP_422_UNPROCESSABLE_ENTITY,
     body |-> [detail |-> ValidationErrors(item)]]

InternalServerError ==
    [status |-> HTTP_500_INTERNAL_SERVER_ERROR, body |-> "Internal Server Error"]

Sent(op, item_id, item, r) ==
    [op |-> op, item_id |-> item_id, item |-> item,
     status |-> r.status, body |-> r.body]

(***************************************************************************)
(* The statements of the handlers.                                         *)
(***************************************************************************)
\* main.py:221-226 (and 133-138)
NewItem(id, fields, now) ==
    [id |-> id, name |-> fields.name, description |-> fields.description,
     price |-> fields.price, quantity |-> fields.quantity,
     created_at |-> now, updated_at |-> now]

\* The update stamps created_at anew.
UpdatedItem_Restamped(item_id, fields, existing_item, now) ==
    [id |-> item_id, name |-> fields.name, description |-> fields.description,
     price |-> fields.price, quantity |-> fields.quantity,
     created_at |-> now, updated_at |-> now]

\* main.py:271-276
UpdatedItem(item_id, fields, existing_item, now) ==
    [id |-> item_id, name |-> fields.name, description |-> fields.description,
     price |-> fields.price, quantity |-> fields.quantity,
     created_at |-> existing_item.created_at, updated_at |-> now]

\* data_store[key] = value
SetItem(store, key, value) ==
    [k \in DOMAIN store \cup {key} |-> IF k = key THEN value ELSE store[k]]

\* del data_store[key]
DelItem(store, key) == [k \in DOMAIN store \ {key} |-> store[k]]

\* next_id += 1
Increment(n) == n + 1

\* list(data_store.values()): the items in insertion order, which is the order
\* of their keys (keys are inserted in increasing order).
RECURSIVE Values(_)
Values(store) ==
    IF DOMAIN store = {} THEN <<>>
    ELSE LET k == CHOOSE x \in DOMAIN store : \A y \in DOMAIN store : x <= y
         IN  <<store[k]>> \o Values(DelItem(store, k))

(***************************************************************************)
(* initialize_demo_data (main.py:94-139), run once when the module is      *)
(* imported: each demo item is stored under next_id with its own read of   *)
(* the clock, and next_id is incremented.                                  *)
(***************************************************************************)
RECURSIVE initialize_demo_data(_, _, _, _)
initialize_demo_data(store, nid, i, nows) ==
    IF i > Len(demo_items) THEN [data_store |-> store, next_id |-> nid]
    ELSE initialize_demo_data(
             SetItem(store, nid, NewItem(nid, demo_items[i], nows[i])),
             Increment(nid), i + 1, nows)

(***************************************************************************)
(* The handlers, as functions of the state they read.  Each yields the     *)
(* response and the new values of the globals it assigns.                  *)
(***************************************************************************)
\* main.py:156-162
get_all_items(store) == [status |-> HTTP_200_OK, body |-> Values(store)]

\* main.py:183-196
get_item_by_id(store, item_id) ==
    IF item_id \notin DOMAIN store
    THEN NotFound(item_id)
    ELSE [status |-> HTTP_200_OK, body |-> store[item_id]]

\* The id taken from the number of stored items, so that a deleted id returns.
create_item_CountsItems(store, nid, item, now) ==
    LET id == Cardinality(DOMAIN store) + 1
        new_item == NewItem(id, model_dump(item), now)
    IN  [data_store |-> SetItem(store, id, new_item),
         next_id |-> Increment(id),
         response |-> [status |-> HTTP_201_CREATED, body |-> new_item]]

\* next_id += 1 left out.
create_item_KeepsCounter(store, nid, item, now) ==
    LET new_item == NewItem(nid, model_dump(item), now)
    IN  [data_store |-> SetItem(store, nid, new_item),
         next_id |-> nid,
         response |-> [status |-> HTTP_201_CREATED, body |-> new_item]]

\* next_id incremented before the item is stored under it.
create_item_IncrementFirst(store, nid, item, now) ==
    LET new_item == NewItem(nid, model_dump(item), now)
    IN  [data_store |-> SetItem(store, Increment(nid), new_item),
         next_id |-> Increment(nid),
         response |-> [status |-> HTTP_201_CREATED, body |-> new_item]]

\* main.py:207-231; item is a validated ItemCreate
create_item(store, nid, item, now) ==
    LET new_item == NewItem(nid, model_dump(item), now)
    IN  [data_store |-> SetItem(store, nid, new_item),
         next_id |-> Increment(nid),
         response |-> [status |-> HTTP_201_CREATED, body |-> new_item]]

\* main.py:252-279; item is a validated ItemUpdate
update_item(store, item_id, item, now) ==
    IF item_id \notin DOMAIN store
    THEN [data_store |-> store, response |-> NotFound(item_id)]
    ELSE LET existing_item == store[item_id]
             updated_item == UpdatedItem(item_id, model_dump(item), existing_item, now)
         IN  [data_store |-> SetItem(store, item_id, updated_item),
              response |-> [status |-> HTTP_200_OK, body |-> updated_item]]

\* The presence check left out (data_store.pop(item_id, None)).
delete_item_Unchecked(store, item_id) ==
    [data_store |-> DelItem(store, item_id),
     response |-> [status |-> HTTP_204_NO_CONTENT, body |-> None]]

\* main.py:299-315
delete_item(store, item_id) ==
    IF item_id \notin DOMAIN store
    THEN [data_store |-> store, response |-> NotFound(item_id)]
    ELSE [data_store |-> DelItem(store, item_id),
          response |-> [status |-> HTTP_204_NO_CONTENT, body |-> None]]

(***************************************************************************)
(* The routes with a request body.  FastAPI validates the body into the    *)
(* handler's ItemCreate / ItemUpdate argument before it calls the handler, *)
(* so an invalid body is answered 422 without the handler running.         *)
(***************************************************************************)
\* main.py:199-207
post_items(store, nid, body, now) ==
    IF ~ItemBase(body)
    THEN [data_store |-> store, next_id |-> nid,
          response |-> RequestValidationError(body)]
    ELSE create_item(store, nid, body, now)

\* The handler's presence check made before the body is validated.
put_item_PresenceFirst(store, item_id, body, now) ==
    IF item_id \notin DOMAIN store
    THEN [data_store |-> store, response |-> NotFound(item_id)]
    ELSE IF ~ItemBase(body)
    THEN [data_store |-> store, response |-> RequestValidationError(body)]
    ELSE update_item(store, item_id, body, now)

\* main.py:234-252
put_item(store, item_id, body, now) ==
    IF ~ItemBase(body)
    THEN [data_store |-> store, response |-> RequestValidationError(body)]
    ELSE update_item(store, item_id, body, now)

(***************************************************************************)
(* The state after the module is imported: data_store holds the five demo  *)
(* items under ids 1..5 and next_id is 6.                                  *)
(***************************************************************************)
\* The clock reads of the loading loop: the five reads fall in one instant.
StartupReads == {[i \in 1..Len(demo_items) |-> now] : now \in Times}

NoResponse == [op |-> "none", item_id |-> 0, item |-> None, status |-> 0, body |-> None]

Threads == {1, 2}
Idle == [op |-> "none", item_id |-> 0, item |-> None,
         now |-> 0, local_item |-> None, loaded |-> 0]

Init ==
    /\ \E nows \in StartupReads :
           LET loaded == initialize_demo_data(<<>>, 1, 1, nows)
           IN  /\ data_store = loaded.data_store
               /\ next_id = loaded.next_id
               /\ issued = [i \in 1..(loaded.next_id - 1) |-> i]
    /\ response = NoResponse
    /\ deleted = {}
    /\ pc = [t \in Threads |-> "idle"]
    /\ frame = [t \in Threads |-> Idle]
    /\ result = [t \in Threads |-> NoResponse]

(***************************************************************************)
(* Spec: one request at a time.                                            *)
(***************************************************************************)
conc == <<pc, frame, result>>

List ==
    /\ response' = Sent("get_all_items", 0, None, get_all_items(data_store))
    /\ UNCHANGED <<data_store, next_id, issued, deleted, conc>>

Get(item_id) ==
    /\ response' = Sent("get_item_by_id", item_id, None,
                        get_item_by_id(data_store, item_id))
    /\ UNCHANGED <<data_store, next_id, issued, deleted, conc>>

Create(body, now) ==
    /\ Len(issued) < NumDemo + MaxCreates
    /\ LET r == post_items(data_store, next_id, body, now)
       IN  /\ data_store' = r.data_store
           /\ next_id' = r.next_id
           /\ response' = Sent("create_item", 0, body, r.response)
           /\ issued' = IF r.response.status = HTTP_201_CREATED
                        THEN Append(issued, r.response.body.id)
                        ELSE issued
    /\ UNCHANGED <<deleted, conc>>

Update(item_id, body, now) ==
    /\ LET r == put_item(data_store, item_id, body, now)
       IN  /\ data_store' = r.data_store
           /\ response' = Sent("update_item", item_id, body, r.response)
    /\ UNCHANGED <<next_id, issued, deleted, conc>>

Delete(item_id) ==
    /\ LET r == delete_item(data_store, item_id)
       IN  /\ data_store' = r.data_store
           /\ response' = Sent("delete_item", item_id, None, r.response)
           /\ deleted' = IF r.response.status = HTTP_204_NO_CONTENT
                         THEN deleted \cup {item_id}
                         ELSE deleted
    /\ UNCHANGED <<next_id, issued, conc>>

Next ==
    \/ List
    \/ \E item_id \in ItemIds : Get(item_id)
    \/ \E body \in Bodies, now \in Times : Create(body, now)
    \/ \E item_id \in ItemIds, body \in Bodies, now \in Times : Update(item_id, body, now)
    \/ \E item_id \in ItemIds : Delete(item_id)

Spec == Init /\ [][Next]_vars

(***************************************************************************)
(* ConcSpec: two worker threads, one request each.  A step is one          *)
(* statement of a handler (next_id += 1 is a load and a store); the        *)
(* threads share data_store and next_id and nothing orders their steps.    *)
(* frame[t].local_item is the handler's new_item, existing_item or         *)
(* updated_item; frame[t].loaded is the value next_id += 1 has loaded.     *)
(* A subscript or del of a missing key raises KeyError, which no handler   *)
(* catches: the request is answered 500.                                   *)
(***************************************************************************)
seq == <<response, issued, deleted>>

Goto(t, label) == pc' = [pc EXCEPT ![t] = label]

Return(t, r) ==
    /\ result' = [result EXCEPT ![t] = Sent(frame[t].op, frame[t].item_id, frame[t].item, r)]
    /\ Goto(t, "done")

Call(t, op, item_id, item, label) ==
    /\ frame' = [frame EXCEPT ![t] = [Idle EXCEPT !.op = op, !.item_id = item_id,
                                                  !.item = item]]
    /\ Goto(t, label)
    /\ UNCHANGED <<data_store, next_id, result, seq>>

Reject(t, op, item_id, item) ==
    /\ frame' = [frame EXCEPT ![t] = [Idle EXCEPT !.op = op, !.item_id = item_id,
                                                  !.item = item]]
    /\ result' = [result EXCEPT ![t] = Sent(op, item_id, item, RequestValidationError(item))]
    /\ Goto(t, "done")
    /\ UNCHANGED <<data_store, next_id, seq>>

\* The framework takes a request, validates its body and calls the handler.
Dispatch(t) ==
    /\ pc[t] = "idle"
    /\ \/ \E item_id \in ItemIds : Call(t, "get_item_by_id", item_id, None, "get_191")
       \/ \E item_id \in ItemIds : Call(t, "delete_item", item_id, None, "delete_308")
       \/ \E body \in Bodies :
              IF ItemBase(body) THEN Call(t, "create_item", 0, body, "create_220")
              ELSE Reject(t, "create_item", 0, body)
       \/ \E item_id \in ItemIds, body \in Bodies :
              IF ItemBase(body) THEN Call(t, "update_item", item_id, body, "update_264")
              ELSE Reject(t, "update_item", item_id, body)

\* main.py:191-195
get_191(t) ==
    /\ pc[t] = "get_191"
    /\ IF frame[t].item_id \notin DOMAIN data_store
       THEN Return(t, NotFound(frame[t].item_id))
       ELSE Goto(t, "get_196") /\ UNCHANGED result
    /\ UNCHANGED <<data_store, next_id, frame, seq>>

\* main.py:196
get_196(t) ==
    /\ pc[t] = "get_196"
    /\ IF frame[t].item_id \notin DOMAIN data_store
       THEN Return(t, InternalServerError)
       ELSE Return(t, [status |-> HTTP_200_OK, body |-> data_store[frame[t].item_id]])
    /\ UNCHANGED <<data_store, next_id, frame, seq>>

\* main.py:220
create_220(t) ==
    /\ pc[t] = "create_220"
    /\ \E now \in Times : frame' = [frame EXCEPT ![t].now = now]
    /\ Goto(t, "create_221")
    /\ UNCHANGED <<data_store, next_id, result, seq>>

\* main.py:221-226
create_221(t) ==
    /\ pc[t] = "create_221"
    /\ frame' = [frame EXCEPT ![t].local_item =
                     NewItem(next_id, model_dump(frame[t].item), frame[t].now)]
    /\ Goto(t, "create_228")
    /\ UNCHANGED <<data_store, next_id, result, seq>>

\* main.py:228
create_228(t) ==
    /\ pc[t] = "create_228"
    /\ data_store' = SetItem(data_store, next_id, frame[t].local_item)
    /\ Goto(t, "create_229_load")
    /\ UNCHANGED <<next_id, frame, result, seq>>

\* main.py:229, the read of next_id
create_229_load(t) ==
    /\ pc[t] = "create_229_load"
    /\ frame' = [frame EXCEPT ![t].loaded = next_id]
    /\ Goto(t, "create_229_store")
    /\ UNCHANGED <<data_store, next_id, result, seq>>

\* main.py:229, the write of next_id
create_229_store(t) ==
    /\ pc[t] = "create_229_store"
    /\ next_id' = Increment(frame[t].loaded)
    /\ Goto(t, "create_231")
    /\ UNCHANGED <<data_store, frame, result, seq>>

\* main.py:231
create_231(t) ==
    /\ pc[t] = "create_231"
    /\ Return(t, [status |-> HTTP_201_CREATED, body |-> frame[t].local_item])
    /\ UNCHANGED <<data_store, next_id, frame, seq>>

\* main.py:264-268
update_264(t) ==
    /\ pc[t] = "update_264"
    /\ IF frame[t].item_id \notin DOMAIN data_store
       THEN Return(t, NotFound(frame[t].item_id))
       ELSE Goto(t, "update_270") /\ UNCHANGED result
    /\ UNCHANGED <<data_store, next_id, frame, seq>>

\* main.py:270
update_270(t) ==
    /\ pc[t] = "update_270"
    /\ IF frame[t].item_id \notin DOMAIN data_store
       THEN Return(t, InternalServerError) /\ UNCHANGED frame
       ELSE /\ frame' = [frame EXCEPT ![t].local_item = data_store[frame[t].item_id]]
            /\ Goto(t, "update_271")
            /\ UNCHANGED result
    /\ UNCHANGED <<data_store, next_id, seq>>

\* main.py:271-276
update_271(t) ==
    /\ pc[t] = "update_271"
    /\ \E now \in Times :
           frame' = [frame EXCEPT ![t].local_item =
                         UpdatedItem(frame[t].item_id, model_dump(frame[t].item),
                                     frame[t].local_item, now)]
    /\ Goto(t, "update_278")
    /\ UNCHANGED <<data_store, next_id, result, seq>>

\* main.py:278-279
update_278(t) ==
    /\ pc[t] = "update_278"
    /\ data_store' = SetItem(data_store, frame[t].item_id, frame[t].local_item)
    /\ Return(t, [status |-> HTTP_200_OK, body |-> frame[t].local_item])
    /\ UNCHANGED <<next_id, frame, seq>>

\* main.py:308-312
delete_308(t) ==
    /\ pc[t] = "delete_308"
    /\ IF frame[t].item_id \notin DOMAIN data_store
       THEN Return(t, NotFound(frame[t].item_id))
       ELSE Goto(t, "delete_314") /\ UNCHANGED result
    /\ UNCHANGED <<data_store, next_id, frame, seq>>

\* main.py:314-315
delete_314(t) ==
    /\ pc[t] = "delete_314"
    /\ IF frame[t].item_id \notin DOMAIN data_store
       THEN Return(t, InternalServerError) /\ UNCHANGED data_store
       ELSE /\ data_store' = DelItem(data_store, frame[t].item_id)
            /\ Return(t, [status |-> HTTP_204_NO_CONTENT, body |-> None])
    /\ UNCHANGED <<next_id, frame, seq>>

ConcNext ==
    \E t \in Threads :
        \/ Dispatch(t)
        \/ get_191(t) \/ get_196(t)
        \/ create_220(t) \/ create_221(t) \/ create_228(t)
        \/ create_229_load(t) \/ create_229_store(t) \/ create_231(t)
        \/ update_264(t) \/ update_270(t) \/ update_271(t) \/ update_278(t)
        \/ delete_308(t) \/ delete_314(t)

ConcSpec == Init /\ [][ConcNext]_vars

(***************************************************************************)
(* Properties of Spec.  In a step of Spec that changes the state,          *)
(* response' names the request the step handled.                           *)
(***************************************************************************)
OnItem == {"get_item_by_id", "update_item", "delete_item"}
WithBody == {"create_item", "update_item"}

\* A body that breaks a constraint, as the claims word it.
ViolatesConstraint(item) ==
    \/ Len(item.name) = 0
    \/ Len(item.name) > 100
    \/ (item.description # None /\ Len(item.description[1]) > 500)
    \/ item.price <= 0
    \/ item.quantity < 0

\* A request the handler is expected to carry out when the id is present.
WellFormed(r) == r.op = "update_item" => ~ViolatesConstraint(r.item)

\* C1: the ids handed out (the preloaded ones first) are strictly increasing,
\* so none is handed out twice, and next_id is greater than every one of
\* them, deleted or not.
C1_IdsStrictlyIncreasing ==
    /\ \A i, j \in DOMAIN issued : i < j => issued[i] < issued[j]
    /\ \A i \in DOMAIN issued : issued[i] < next_id
    /\ \A id \in DOMAIN data_store \cup deleted : \E i \in DOMAIN issued : issued[i] = id

\* C1 witness: an item was deleted and the last request created an item.
C1_CreateAfterDelete ==
    /\ deleted # {}
    /\ response.op = "create_item"
    /\ response.status = HTTP_201_CREATED
    /\ Len(issued) = NumDemo + 2

\* C2: an id a delete has removed is absent in every later state, and get,
\* update with valid fields and delete on it are answered NotFound.
C2_DeletedStaysNotFound ==
    \A id \in deleted :
        /\ id \notin DOMAIN data_store
        /\ get_item_by_id(data_store, id) = NotFound(id)
        /\ delete_item(data_store, id).response = NotFound(id)
        /\ \A body \in ValidBodies, now \in Times :
               put_item(data_store, id, body, now).response = NotFound(id)
        /\ (response.op \in {"get_item_by_id", "update_item"}
              /\ response.item_id = id /\ WellFormed(response))
           => response.status = HTTP_404_NOT_FOUND

\* C2 witness: the first created item was deleted, the second exists, and a
\* get of the deleted id was answered 404.
C2_GetAfterDelete ==
    /\ NumDemo + 1 \in deleted
    /\ NumDemo + 2 \in DOMAIN data_store
    /\ response.op = "get_item_by_id"
    /\ response.item_id = NumDemo + 1
    /\ response.status = HTTP_404_NOT_FOUND

\* C3: a successful update keeps the item's id and created_at, sets name,
\* description, price and quantity to the values sent, and leaves every other
\* item and next_id as they were.
C3_UpdateFrame ==
    [][ (response'.op = "update_item" /\ response'.status = HTTP_200_OK) =>
        LET id == response'.item_id
            sent == response'.item
        IN  /\ id \in DOMAIN data_store
            /\ DOMAIN data_store' = DOMAIN data_store
            /\ data_store'[id].id = data_store[id].id
            /\ data_store'[id].id = id
            /\ data_store'[id].created_at = data_store[id].created_at
            /\ data_store'[id].name = sent.name
            /\ data_store'[id].description = sent.description
            /\ data_store'[id].price = sent.price
            /\ data_store'[id].quantity = sent.quantity
            /\ \A k \in DOMAIN data_store \ {id} : data_store'[k] = data_store[k]
            /\ next_id' = next_id
            /\ response'.body = data_store'[id] ]_vars

\* C3 witness: the last preloaded item was updated at an instant other than
\* the one it was created at, and now holds the fields sent.
C3_UpdatedDemoItem ==
    /\ response.op = "update_item"
    /\ response.status = HTTP_200_OK
    /\ response.item_id = NumDemo
    /\ data_store[NumDemo].name = Widget2.name
    /\ data_store[NumDemo].updated_at # data_store[NumDemo].created_at

\* C4: every stored item has updated_at >= created_at.
C4_UpdatedAtNotBeforeCreatedAt ==
    \A id \in DOMAIN data_store :
        data_store[id].updated_at >= data_store[id].created_at

\* C5: a create with valid fields returns an item whose created_at equals its
\* updated_at and whose fields are the ones sent, and a get of the returned id
\* in the state the create leaves returns that same record.
C5_CreateThenGet ==
    /\ \A body \in ValidBodies, now \in Times :
           post_items(data_store, next_id, body, now).response.status = HTTP_201_CREATED
    /\ (response.op = "create_item" /\ ~ViolatesConstraint(response.item)) =>
           /\ response.status = HTTP_201_CREATED
           /\ response.body.created_at = response.body.updated_at
           /\ response.body.name = response.item.name
           /\ response.body.description = response.item.description
           /\ response.body.price = response.item.price
           /\ response.body.quantity = response.item.quantity
           /\ get_item_by_id(data_store, response.body.id) =
                  [status |-> HTTP_200_OK, body |-> response.body]

\* C5 witness: the last request created an item from the longest valid fields.
C5_Created ==
    /\ response.op = "create_item"
    /\ response.status = HTTP_201_CREATED
    /\ response.item = Widget2
    /\ response.body.id = NumDemo + 2

ExpectedDetail(item_id) ==
    CASE item_id = 5 -> "Item with id 5 not found"
      [] item_id = 6 -> "Item with id 6 not found"
      [] item_id = 7 -> "Item with id 7 not found"

\* C6: get, update with valid fields and delete on an id that is not in the
\* store are answered 404 with the detail "Item with id {id} not found", and
\* the store and next_id stay as they were.
C6_NotFoundChangesNothing ==
    [][ (response'.op \in OnItem /\ WellFormed(response')
           /\ response'.item_id \notin DOMAIN data_store) =>
        /\ response'.status = 404
        /\ response'.body = [detail |-> ExpectedDetail(response'.item_id)]
        /\ data_store' = data_store
        /\ next_id' = next_id ]_vars

\* C6 witness: a delete of an id that was never issued was answered 404.
C6_DeleteOfAbsentId ==
    /\ response.op = "delete_item"
    /\ response.status = HTTP_404_NOT_FOUND
    /\ response.item_id = NumDemo + 1
    /\ Len(issued) = NumDemo
    /\ deleted = {}

\* C7: a create or update whose fields break a constraint is answered with a
\* validation error and changes neither the store nor next_id; every stored
\* item has a name of 1 to 100 characters, a price > 0 and a quantity >= 0.
C7_StoredItemsValid ==
    \A id \in DOMAIN data_store :
        /\ Len(data_store[id].name) >= 1
        /\ Len(data_store[id].name) <= 100
        /\ data_store[id].price > 0
        /\ data_store[id].quantity >= 0

C7_InvalidRejected ==
    /\ []C7_StoredItemsValid
    /\ [][ (response'.op \in WithBody /\ ViolatesConstraint(response'.item)) =>
           /\ response'.status = HTTP_422_UNPROCESSABLE_ENTITY
           /\ data_store' = data_store
           /\ next_id' = next_id ]_vars

\* C7 witness: an update of a stored item with a price of 0 was answered 422.
C7_UpdateRejected ==
    /\ response.op = "update_item"
    /\ response.item.price = 0
    /\ response.item_id \in DOMAIN data_store
    /\ response.status = HTTP_422_UNPROCESSABLE_ENTITY

\* C8 as claimed: an update of an absent id is answered NotFound whether or
\* not the fields are valid.
C8_AbsentIdAlwaysNotFound ==
    (response.op = "update_item" /\ response.item_id \notin DOMAIN data_store)
        => response.status = HTTP_404_NOT_FOUND

\* C8 amended: the fields are validated before the handler checks the id: an
\* update with invalid fields is answered with a validation error whether or
\* not the id is present, and NotFound is reported exactly when the fields are
\* valid and the id is absent.
C8_ValidationBeforePresence ==
    response.op = "update_item" =>
        /\ ViolatesConstraint(response.item)
              => response.status = HTTP_422_UNPROCESSABLE_ENTITY
        /\ response.status = HTTP_404_NOT_FOUND
              <=> (~ViolatesConstraint(response.item)
                     /\ response.item_id \notin DOMAIN data_store)

\* C8 witness: an update of an absent id with invalid fields was answered 422.
C8_InvalidUpdateOfAbsentId ==
    /\ response.op = "update_item"
    /\ response.item_id \notin DOMAIN data_store
    /\ ViolatesConstraint(response.item)
    /\ response.status = HTTP_422_UNPROCESSABLE_ENTITY

(***************************************************************************)
(* Properties of ConcSpec.                                                 *)
(***************************************************************************)
Finished(t, op) == pc[t] = "done" /\ frame[t].op = op

\* C9: two create requests handled concurrently return distinct ids, both new
\* items are in the store afterwards, and next_id has advanced by exactly two.
C9_ConcurrentCreatesAtomic ==
    (\A t \in Threads : Finished(t, "create_item") /\ result[t].status = HTTP_201_CREATED)
    => /\ result[1].body.id # result[2].body.id
       /\ \A t \in Threads :
              /\ result[t].body.id \in DOMAIN data_store
              /\ data_store[result[t].body.id] = result[t].body
       /\ next_id = NumDemo + 1 + 2

\* C10: a get, an update with valid fields or a delete ends in success or in
\* NotFound, whatever the other thread does meanwhile.
C10_SuccessOrNotFound ==
    \A t \in Threads :
        (pc[t] = "done" /\ frame[t].op \in OnItem /\ WellFormed(frame[t]))
        => result[t].status \in {HTTP_200_OK, HTTP_204_NO_CONTENT, HTTP_404_NOT_FOUND}

====
